---- MODULE Spec2Model ----
(***************************************************************************)
(* Model of wrustblog: the content loader (src/src/content.rs), the        *)
(* template set (src/src/templates.rs), the pack driver (src/src/pack.rs)  *)
(* and the serve handlers (src/src/serve/mod.rs).                          *)
(*                                                                         *)
(* Text (file contents, file names, request URIs, paths) is a sequence of  *)
(* one-character strings, so that the string functions of the code are     *)
(* computed character by character.                                        *)
(***************************************************************************)
EXTENDS Integers, Sequences, FiniteSets, TLC

VARIABLES
    posts_dir,   \* <content>/posts as read_dir enumerates it: a sequence of entries
    blog_md,     \* <content>/blog.md: [text, meta]
    tmpl,        \* names of the templates ramhorns loads from the templates directory
    call,        \* SpecLoad: the last loader call and what it returned
    pc,          \* Spec: position of PackCommand::run
    blog_templates, \* Spec: result of templates::Blog::read_from_dir
    blog_content,   \* Spec: result of content::Blog::read_from
    todo,        \* Spec: posts / assets the running loop has still to process
    out,         \* Spec: the output directory
    exit_code,   \* Spec: -1 while running, else the process exit status
    stderr,      \* Spec: the errors Error::fatal printed
    req,         \* SpecServe: the request handed to a handler
    resp,        \* SpecServe: the handler's response and the files it touched
    hnd          \* SpecFresh: how far the handler has come and what it has read

vars == <<posts_dir, blog_md, tmpl, call, pc, blog_templates, blog_content,
          todo, out, exit_code, stderr, req, resp, hnd>>

----------------------------------------------------------------------------
(* Bounds of the model.                                                    *)

\* Longest directory listing of <content>/posts.
MaxEntries == 3
\* Publish timestamps are 1..MaxDate; timestamp d stands for "<2019+d>-01-01 10:00".
MaxDate == 2
\* Longest request tail appended to a route prefix.
MaxTail == 5
\* Longest text handed to split_content on its own.
MaxText == 9
\* Longest Markdown event stream handed to process_markdown_images on its own.
MaxEvents == 2
\* Most entries of <content>/posts while the server runs under changes.
MaxFreshEntries == 2

----------------------------------------------------------------------------
(* Program constants.                                                      *)

POST_SUBDIR == <<"p","o","s","t","s">>
ASSETS_SUBDIR == <<"a","s","s","e","t","s">>
ASSETS_ROUTE == <<"/","a","s","s","e","t","s">>
POSTS_ROUTE == <<"/","p","o","s","t","s">>
POST_ASSETS_ROUTE == <<"/","p","o","s","t","s","/","p","o","s","t","_","a","s","s","e","t","s">>
POST_ASSETS_DIR == <<"p","o","s","t","_","a","s","s","e","t","s">>
MAIN_TEMPLATE == <<"i","n","d","e","x",".","h","t","m","l">>
POST_TEMPLATE == <<"p","o","s","t",".","h","t","m","l">>
BLOG_FILE == <<"b","l","o","g",".","m","d">>
MD == <<"m","d">>
HTML == <<"h","t","m","l">>
DOT_MD == <<".","m","d">>
DELIMITER == <<"-","-","-">>

----------------------------------------------------------------------------
(* Option and Result values.                                               *)

None == [some |-> FALSE]
Some(v) == [some |-> TRUE, val |-> v]
UnwrapOrDefault(o, d) == IF o.some THEN o.val ELSE d

\* stands for a byte that no valid UTF-8 text holds (0xFF) in a file name
INVALID_BYTE == "#"

\* OsStr::to_str / Path::to_str: the text, when it is valid UTF-8
to_str(s) ==
    IF \E i \in 1..Len(s) : s[i] = INVALID_BYTE THEN None ELSE Some(s)

Ok(v) == [ok |-> TRUE, val |-> v]
Err(e) == [ok |-> FALSE, err |-> e]

\* errors::Error
Undefined(msg) == [kind |-> "Undefined", arg |-> msg]
NoFrontMatter(file) == [kind |-> "NoFrontMatter", arg |-> file]
NoBlogTemplateFound == [kind |-> "NoBlogTemplateFound", arg |-> <<>>]
NoPostsTemplateFound == [kind |-> "NoPostsTemplateFound", arg |-> <<>>]

----------------------------------------------------------------------------
(* str: starts_with, find, replace.                                        *)

StrStartsWith(s, p) ==
    /\ Len(p) <= Len(s)
    /\ SubSeq(s, 1, Len(p)) = p

\* s[i..], 0-based byte offset i as in Rust
StrFrom(s, i) == SubSeq(s, i + 1, Len(s))
\* s[..i]
StrTo(s, i) == SubSeq(s, 1, i)

\* str::find: 0-based offset of the first occurrence of p in s
RECURSIVE FindFrom(_, _, _)
FindFrom(s, p, i) ==
    IF i + Len(p) > Len(s) THEN None
    ELSE IF SubSeq(s, i + 1, i + Len(p)) = p THEN Some(i)
    ELSE FindFrom(s, p, i + 1)

StrFind(s, p) == FindFrom(s, p, 0)

\* str::replace(p, ""): every non-overlapping occurrence of p removed, left to right
RECURSIVE StrRemoveAll(_, _)
StrRemoveAll(s, p) ==
    IF s = <<>> THEN <<>>
    ELSE IF StrStartsWith(s, p) THEN StrRemoveAll(StrFrom(s, Len(p)), p)
    ELSE <<Head(s)>> \o StrRemoveAll(Tail(s), p)

----------------------------------------------------------------------------
(* std::path on Unix.  A component is the text of a path segment; the root *)
(* component is "/".                                                       *)

RootDir == <<"/">>
CurDir == <<".">>
ParentDir == <<".", ".">>

HasRoot(s) == Len(s) > 0 /\ s[1] = "/"

\* the raw segments between separators, empty ones included
RECURSIVE SplitFrom(_, _, _)
SplitFrom(s, i, cur) ==
    IF i > Len(s) THEN <<cur>>
    ELSE IF s[i] = "/" THEN <<cur>> \o SplitFrom(s, i + 1, <<>>)
    ELSE SplitFrom(s, i + 1, Append(cur, s[i]))

Split(s) == SplitFrom(s, 1, <<>>)

RECURSIVE JoinSegs(_)
JoinSegs(segs) ==
    IF segs = <<>> THEN <<>>
    ELSE IF Len(segs) = 1 THEN segs[1]
    ELSE segs[1] \o <<"/">> \o JoinSegs(Tail(segs))

\* a segment that yields no component: empty, or "." anywhere but at the
\* start of a relative path
IsSkipped(seg, atStart) == seg = <<>> \/ (seg = CurDir /\ ~atStart)

RECURSIVE BodyComponents(_, _)
BodyComponents(segs, atStart) ==
    IF segs = <<>> THEN <<>>
    ELSE IF IsSkipped(Head(segs), atStart) THEN BodyComponents(Tail(segs), FALSE)
    ELSE <<Head(segs)>> \o BodyComponents(Tail(segs), FALSE)

\* Path::components
Components(s) ==
    IF HasRoot(s) THEN <<RootDir>> \o BodyComponents(Tail(Split(s)), FALSE)
    ELSE BodyComponents(Split(s), TRUE)

IsNormal(c) == c # RootDir /\ c # CurDir /\ c # ParentDir

\* Path::file_name
FileName(s) ==
    LET cs == Components(s) IN
    IF cs # <<>> /\ IsNormal(cs[Len(cs)]) THEN Some(cs[Len(cs)]) ELSE None

\* 1-based position of the last "." of a name, 0 when there is none
RECURSIVE LastDot(_, _)
LastDot(name, i) ==
    IF i = 0 THEN 0
    ELSE IF name[i] = "." THEN i
    ELSE LastDot(name, i - 1)

\* Path::extension: the text after the last dot of the file name, when the
\* dot is not the first character
Extension(s) ==
    LET fn == FileName(s) IN
    IF ~fn.some THEN None
    ELSE LET d == LastDot(fn.val, Len(fn.val)) IN
         IF d <= 1 THEN None ELSE Some(SubSeq(fn.val, d + 1, Len(fn.val)))

\* Path::file_stem
FileStem(name) ==
    LET d == LastDot(name, Len(name)) IN
    IF d <= 1 THEN name ELSE SubSeq(name, 1, d - 1)

\* PathBuf::set_extension applied to a file name
SetExtension(name, ext) == FileStem(name) \o <<".">> \o ext

IsPrefixSeq(p, s) == Len(p) <= Len(s) /\ SubSeq(s, 1, Len(p)) = p

\* Path::starts_with: whole components only
PathStartsWith(s, base) == IsPrefixSeq(Components(base), Components(s))

\* what is left of the raw segments once k components are consumed and the
\* skipped segments that follow are trimmed
RECURSIVE DropComponents(_, _, _)
DropComponents(segs, k, atStart) ==
    IF segs = <<>> THEN <<>>
    ELSE IF IsSkipped(Head(segs), atStart) THEN DropComponents(Tail(segs), k, FALSE)
    ELSE IF k = 0 THEN segs
    ELSE DropComponents(Tail(segs), k - 1, FALSE)

RECURSIVE TrimRight(_)
TrimRight(segs) ==
    IF segs = <<>> THEN <<>>
    ELSE IF IsSkipped(segs[Len(segs)], FALSE) THEN TrimRight(SubSeq(segs, 1, Len(segs) - 1))
    ELSE segs

\* Path::strip_prefix: the text of the path after the components of base
StripPrefix(s, base) ==
    IF ~PathStartsWith(s, base) THEN Err("StripPrefixError")
    ELSE LET k == Len(Components(base))
             rest == IF HasRoot(s)
                     THEN DropComponents(Tail(Split(s)), k - 1, FALSE)
                     ELSE DropComponents(Split(s), k, TRUE)
         IN Ok(JoinSegs(TrimRight(rest)))

\* Path::join / PathBuf::push
PathJoin(base, p) ==
    IF HasRoot(p) THEN p
    ELSE IF base = <<>> THEN p
    ELSE IF base[Len(base)] = "/" THEN base \o p
    ELSE base \o <<"/">> \o p

----------------------------------------------------------------------------
(* The file system.  A node is the sequence of names from the root; the    *)
(* command line names the directories /t (templates) and /c (content),     *)
(* both canonical.                                                         *)

TemplatesArg == <<"/", "t">>
ContentArg == <<"/", "c">>
OutputArg == <<"/", "o">>

TemplatesNode == << <<"t">> >>
AssetsNode == << <<"t">>, ASSETS_SUBDIR >>
ContentNode == << <<"c">> >>
PostsNode == << <<"c">>, POST_SUBDIR >>

\* files that are on the disk beside the content and the templates
FixedFiles ==
    { << <<"t">>, <<"m">> >>,
      << <<"t">>, ASSETS_SUBDIR, <<"m">> >>,
      << <<"t">>, ASSETS_SUBDIR, <<"m", ".", "m", "d">> >>,
      << <<"t">>, ASSETS_SUBDIR, <<"d">>, <<"m">> >>,
      << <<"c">>, <<"m">> >> }

FixedDirs ==
    { <<>>, TemplatesNode, AssetsNode, << <<"t">>, ASSETS_SUBDIR, <<"d">> >>,
      ContentNode, PostsNode }

EntryIndex(name) ==
    IF \E i \in 1..Len(posts_dir) : posts_dir[i].name = name
    THEN CHOOSE i \in 1..Len(posts_dir) : posts_dir[i].name = name
    ELSE 0

NodeKind(node) ==
    IF node \in FixedDirs THEN "dir"
    ELSE IF node \in FixedFiles THEN "file"
    ELSE IF Len(node) = 2 /\ node[1] = <<"t">> /\ node[2] \in tmpl THEN "file"
    ELSE IF node = Append(ContentNode, BLOG_FILE) /\ blog_md.present THEN "file"
    ELSE IF Len(node) = 3 /\ SubSeq(node, 1, 2) = PostsNode /\ EntryIndex(node[3]) # 0
         THEN posts_dir[EntryIndex(node[3])].kind
    ELSE "none"

Parent(node) == IF node = <<>> THEN <<>> ELSE SubSeq(node, 1, Len(node) - 1)

\* path resolution as the kernel does it: segment by segment, ".." to the
\* parent, through directories only
RECURSIVE Walk(_, _)
Walk(cur, segs) ==
    IF segs = <<>> THEN Ok(cur)
    ELSE IF NodeKind(cur) # "dir" THEN Err("ENOTDIR")
    ELSE LET s == Head(segs) IN
         IF s = <<>> \/ s = CurDir THEN Walk(cur, Tail(segs))
         ELSE IF s = ParentDir THEN Walk(Parent(cur), Tail(segs))
         ELSE IF NodeKind(Append(cur, s)) = "none" THEN Err("ENOENT")
         ELSE Walk(Append(cur, s), Tail(segs))

Resolve(path) ==
    IF ~HasRoot(path) THEN Err("ENOENT") ELSE Walk(<<>>, Tail(Split(path)))

\* std::fs::read_to_string: the text of a file, with what YAML its front
\* matter holds
ReadToString(path) ==
    LET r == Resolve(path) IN
    IF ~r.ok THEN Err(Undefined(r.err))
    ELSE IF NodeKind(r.val) = "dir" THEN Err(Undefined("EISDIR"))
    ELSE IF r.val = Append(ContentNode, BLOG_FILE) THEN Ok(blog_md)
    ELSE IF Len(r.val) = 3 /\ SubSeq(r.val, 1, 2) = PostsNode
         THEN Ok(posts_dir[EntryIndex(r.val[3])])
    ELSE Ok([text |-> <<>>, meta |-> [parse |-> "nodata"]])

\* std::fs::read_dir
ReadDir(path) ==
    LET r == Resolve(path) IN
    IF ~r.ok THEN Err(Undefined(r.err))
    ELSE IF r.val = PostsNode THEN Ok(posts_dir)
    ELSE IF NodeKind(r.val) = "dir" THEN Ok(<<>>)
    ELSE Err(Undefined("ENOTDIR"))

----------------------------------------------------------------------------
(* content.rs                                                              *)

\* pulldown_cmark::Parser over the body: "!" stands for an image reference
\* to URL "x", "@" for a link to URL "x", any other character for text
MDParser(content) ==
    [i \in 1..Len(content) |->
        IF content[i] = "!" THEN [ev |-> "Image", url |-> <<"x">>]
        ELSE IF content[i] = "@" THEN [ev |-> "Link", url |-> <<"x">>]
        ELSE [ev |-> "Text", url |-> <<content[i]>>]]

\* faulty variant: the URL of a link is rewritten like that of an image
process_markdown_urls(parser) ==
    [i \in 1..Len(parser) |->
        IF parser[i].ev \in {"Image", "Link"}
        THEN [ev |-> parser[i].ev, url |-> POST_ASSETS_DIR \o <<"/">> \o parser[i].url]
        ELSE parser[i]]

process_markdown_images(parser) ==
    [i \in 1..Len(parser) |->
        IF parser[i].ev = "Image"
        THEN [ev |-> "Image", url |-> POST_ASSETS_DIR \o <<"/">> \o parser[i].url]
        ELSE parser[i]]

\* html::push_html: one HTML fragment per event
push_html(parser) ==
    [i \in 1..Len(parser) |->
        IF parser[i].ev = "Image" THEN [tag |-> "img", attr |-> parser[i].url]
        ELSE IF parser[i].ev = "Link" THEN [tag |-> "a", attr |-> parser[i].url]
        ELSE [tag |-> "text", attr |-> parser[i].url]]

\* Matter::<YAML>::parse: no data from an empty block, else the YAML the
\* file holds
Matter_parse(front_matter, file) ==
    IF front_matter = <<>> THEN [parse |-> "nodata", title |-> "", date |-> 0, favorite |-> FALSE]
    ELSE file.meta

\* faulty variant: an opening delimiter that is never closed makes the whole text
\* the front matter
split_content_unclosed(content) ==
    IF ~StrStartsWith(content, DELIMITER)
    THEN <<content, <<>>>>
    ELSE LET rest == StrFrom(content, Len(DELIMITER))
             end == StrFind(rest, DELIMITER)
         IN IF end.some
            THEN <<StrFrom(rest, end.val + Len(DELIMITER)),
                   StrTo(content, end.val + 2 * Len(DELIMITER))>>
            ELSE <<<<>>, content>>

\* faulty variant: the closing delimiter is left out of the front matter
split_content_open_block(content) ==
    IF ~StrStartsWith(content, DELIMITER)
    THEN <<content, <<>>>>
    ELSE LET rest == StrFrom(content, Len(DELIMITER))
             end == StrFind(rest, DELIMITER)
         IN IF end.some
            THEN <<StrFrom(rest, end.val + Len(DELIMITER)),
                   StrTo(content, end.val + Len(DELIMITER))>>
            ELSE <<content, <<>>>>

split_content(content) ==
    IF ~StrStartsWith(content, DELIMITER)
    THEN <<content, <<>>>>
    ELSE LET rest == StrFrom(content, Len(DELIMITER))
             end == StrFind(rest, DELIMITER)
         IN IF end.some
            THEN <<StrFrom(rest, end.val + Len(DELIMITER)),
                   StrTo(content, end.val + 2 * Len(DELIMITER))>>
            ELSE <<content, <<>>>>

\* year of timestamp d
YearOf(d) == 2019 + d

Tags == <<"rust", "blog">>

\* read_post_file once the front matter is deserialized
PostFromData(post_path, content, data) ==
    IF data.parse = "nodata" THEN Err(NoFrontMatter(post_path))
    ELSE IF data.parse = "invalid" THEN Err(Undefined("deserialize"))
    ELSE Ok([title |-> data.title,
             date |-> data.date,
             tags |-> Tags,
             summary |-> "summary",
             content |-> push_html(process_markdown_images(MDParser(content))),
             favorite |-> data.favorite,
             file_name |-> SetExtension(UnwrapOrDefault(FileName(post_path), <<>>), HTML),
             author |-> "author",
             year |-> ToString(YearOf(data.date))])

\* read_post_file once the text is split into sc = (content, front_matter)
PostFromSplit(post_path, file, sc) ==
    IF sc[2] = <<>> THEN Err(NoFrontMatter(post_path))
    ELSE PostFromData(post_path, sc[1], Matter_parse(sc[2], file))

\* read_post_file once the file is read
PostFromFile(post_path, rd) ==
    IF ~rd.ok THEN rd ELSE PostFromSplit(post_path, rd.val, split_content(rd.val.text))

read_post_file(post_path) == PostFromFile(post_path, ReadToString(post_path))

MetadataFromData(post_path, data) ==
    IF data.parse = "nodata" THEN Err(NoFrontMatter(post_path))
    ELSE IF data.parse = "invalid" THEN Err(Undefined("deserialize"))
    ELSE Ok([title |-> data.title,
             date |-> data.date,
             tags |-> Tags,
             summary |-> "summary",
             author |-> "author",
             file_name |-> UnwrapOrDefault(FileName(post_path), <<>>)])

MetadataFromSplit(post_path, file, sc) ==
    IF sc[2] = <<>> THEN Err(NoFrontMatter(post_path))
    ELSE MetadataFromData(post_path, Matter_parse(sc[2], file))

MetadataFromFile(post_path, rd) ==
    IF ~rd.ok THEN rd ELSE MetadataFromSplit(post_path, rd.val, split_content(rd.val.text))

read_post_metadata(post_path) == MetadataFromFile(post_path, ReadToString(post_path))

BlogFromData(blog_file, content, data) ==
    IF data.parse = "nodata" THEN Err(NoFrontMatter(blog_file))
    ELSE IF data.parse = "invalid" THEN Err(Undefined("deserialize"))
    ELSE Ok([title |-> "blog", twitter |-> "twitter", author |-> "author",
             year |-> 2023,
             home_content |-> push_html(process_markdown_images(MDParser(content))),
             posts |-> <<>>, post_assets |-> <<>>])

BlogFromSplit(blog_file, file, sc) ==
    IF sc[2] = <<>> THEN Err(NoFrontMatter(blog_file))
    ELSE BlogFromData(blog_file, sc[1], Matter_parse(sc[2], file))

BlogFromFile(blog_file, rd) ==
    IF ~rd.ok THEN rd ELSE BlogFromSplit(blog_file, rd.val, split_content(rd.val.text))

\* faulty variant: the blog.md loaded for the last home page answered is
\* kept and used again
read_blog_file_cached(dir) ==
    IF call.fn = "answered" /\ call.arg.handler = "main" /\ call.res.status = 200
    THEN Ok([title |-> call.res.body.val.model.title,
             twitter |-> call.res.body.val.model.twitter,
             author |-> call.res.body.val.model.author,
             year |-> call.res.body.val.model.year,
             home_content |-> call.res.body.val.model.home_content,
             posts |-> <<>>, post_assets |-> <<>>])
    ELSE BlogFromFile(PathJoin(dir, BLOG_FILE), ReadToString(PathJoin(dir, BLOG_FILE)))

read_blog_file(dir) == BlogFromFile(PathJoin(dir, BLOG_FILE), ReadToString(PathJoin(dir, BLOG_FILE)))

\* faulty variant: the entry's type is not looked at
EntryClassAnyKind(entry, ext) ==
    IF ~ext.some THEN "skip"
    ELSE IF UnwrapOrDefault(to_str(ext.val), <<>>) # MD THEN "asset"
    ELSE "content"

\* how the directory walks classify an entry by its type and extension
EntryClass(entry, ext) ==
    IF entry.kind # "file" THEN "skip"
    ELSE IF ~ext.some THEN "skip"
    ELSE IF UnwrapOrDefault(to_str(ext.val), <<>>) # MD THEN "asset"
    ELSE "content"

\* the loop of read_post_files over the entries read_dir yields
RECURSIVE ReadPostItems(_, _, _)
RECURSIVE PushPostItem(_, _, _, _)
RECURSIVE PushContent(_, _, _, _)
ReadPostItems(dir_path, entries, post_items) ==
    IF entries = <<>> THEN Ok(post_items)
    ELSE PushPostItem(dir_path, entries, post_items,
                      EntryClass(Head(entries), Extension(PathJoin(dir_path, Head(entries).name))))

PushPostItem(dir_path, entries, post_items, class) ==
    IF class = "skip" THEN ReadPostItems(dir_path, Tail(entries), post_items)
    ELSE IF class = "asset"
    THEN ReadPostItems(dir_path, Tail(entries),
                       Append(post_items, [item |-> "Asset",
                                           val |-> PathJoin(dir_path, Head(entries).name)]))
    ELSE PushContent(dir_path, entries, post_items,
                     read_post_file(UnwrapOrDefault(
                         to_str(PathJoin(dir_path, Head(entries).name)), <<>>)))

PushContent(dir_path, entries, post_items, post) ==
    IF ~post.ok THEN post
    ELSE ReadPostItems(dir_path, Tail(entries),
                       Append(post_items, [item |-> "Content", val |-> post.val]))

PostItemsFromDir(posts_dir_path, rd) ==
    IF ~rd.ok THEN rd ELSE ReadPostItems(posts_dir_path, rd.val, <<>>)

read_post_files(content_path) ==
    PostItemsFromDir(PathJoin(content_path, POST_SUBDIR),
                     ReadDir(PathJoin(content_path, POST_SUBDIR)))

\* the loop of read_posts_metadata
RECURSIVE ReadMetadataItems(_, _, _)
RECURSIVE PushMetadataItem(_, _, _, _)
RECURSIVE PushMetadata(_, _, _, _)
ReadMetadataItems(dir_path, entries, posts_metadata) ==
    IF entries = <<>> THEN Ok(posts_metadata)
    ELSE PushMetadataItem(dir_path, entries, posts_metadata,
                          EntryClass(Head(entries), Extension(PathJoin(dir_path, Head(entries).name))))

PushMetadataItem(dir_path, entries, posts_metadata, class) ==
    IF class # "content" THEN ReadMetadataItems(dir_path, Tail(entries), posts_metadata)
    ELSE PushMetadata(dir_path, entries, posts_metadata,
                      read_post_metadata(UnwrapOrDefault(
                          to_str(PathJoin(dir_path, Head(entries).name)), <<>>)))

PushMetadata(dir_path, entries, posts_metadata, metadata) ==
    IF ~metadata.ok THEN metadata
    ELSE ReadMetadataItems(dir_path, Tail(entries), Append(posts_metadata, metadata.val))

MetadataFromDir(posts_path, rd) ==
    IF ~rd.ok THEN rd ELSE ReadMetadataItems(posts_path, rd.val, <<>>)

read_posts_metadata(posts_path) == MetadataFromDir(posts_path, ReadDir(posts_path))

\* faulty variant: the comparator with its operands the other way round (ascending)
OlderOrSame(a, b) == a.date <= b.date

\* the comparator handed to sort_by: TRUE when a must not come after b
NewerOrSame(a, b) == a.date >= b.date

\* Vec::sort_by is a stable sort: an element goes after every element
\* already placed that the comparator does not put after it
RECURSIVE InsertSorted(_, _)
InsertSorted(sorted, p) ==
    IF sorted = <<>> THEN <<p>>
    ELSE IF NewerOrSame(Head(sorted), p) THEN <<Head(sorted)>> \o InsertSorted(Tail(sorted), p)
    ELSE <<p>> \o sorted

RECURSIVE SortPosts(_)
SortPosts(posts) ==
    IF posts = <<>> THEN <<>>
    ELSE InsertSorted(SortPosts(SubSeq(posts, 1, Len(posts) - 1)), posts[Len(posts)])

SelectItems(items, which) ==
    LET idx == {i \in 1..Len(items) : items[i].item = which}
        F[n \in 0..Len(items)] ==
            IF n = 0 THEN <<>>
            ELSE IF n \in idx THEN Append(F[n - 1], items[n].val) ELSE F[n - 1]
    IN F[Len(items)]

\* Blog::read_from once the posts directory and blog.md are read
BlogFromItems(post_items, blog) ==
    IF ~blog.ok THEN blog
    ELSE Ok([blog.val EXCEPT !.posts = SortPosts(SelectItems(post_items, "Content")),
                             !.post_assets = SelectItems(post_items, "Asset")])

BlogFromPostItems(dir, post_items) ==
    IF ~post_items.ok THEN post_items
    ELSE BlogFromItems(post_items.val, read_blog_file(dir))

\* content::Blog::read_from
Blog_read_from(dir) == BlogFromPostItems(dir, read_post_files(dir))

----------------------------------------------------------------------------
(* The inputs: what the posts directory, blog.md and the templates         *)
(* directory may hold.                                                     *)

NoMeta == [parse |-> "nodata", title |-> "", date |-> 0, favorite |-> FALSE]
InvalidMeta == [parse |-> "invalid", title |-> "", date |-> 0, favorite |-> FALSE]

\* a front-matter block, a body with text, an image and a link
GoodText == <<"-","-","-","x","-","-","-","x","!","@">>
\* an empty front-matter block and no body
EmptyBlockText == <<"-","-","-","-","-","-">>
\* texts with no complete front-matter block
IncompleteTexts ==
    { <<"x","-","-","-","x","-","-","-">>,
      <<"-","-","-","x","-","-">> }

PostNames == { <<"m",".","m","d">>, <<"d",".","m","d">>, <<"m",".","m","d",".","m","d">> }
\* two assets, and one whose name is not valid UTF-8
AssetNames == { <<"m",".","d">>, <<"d",".","m">>, <<"m",".","#">> }
PlainName == <<"m">>
DirName == <<"d">>

TitleOf(name) ==
    IF name = <<"m",".","m","d">> THEN "post m"
    ELSE IF name = <<"d",".","m","d">> THEN "post d"
    ELSE "post m.md"

\* the entries a file name can stand for
EntriesNamed(name) ==
    IF name \in PostNames
    THEN { [name |-> name, kind |-> "file", text |-> GoodText,
            meta |-> [parse |-> "ok", title |-> TitleOf(name), date |-> d,
                      favorite |-> (name = <<"m",".","m","d">>)]] : d \in 1..MaxDate }
         \cup { [name |-> name, kind |-> "file", text |-> GoodText, meta |-> InvalidMeta] }
         \cup (IF name = <<"d",".","m","d">>
               THEN { [name |-> name, kind |-> "file", text |-> EmptyBlockText, meta |-> NoMeta],
                      [name |-> name, kind |-> "dir", text |-> <<>>, meta |-> NoMeta] }
               ELSE {})
         \cup { [name |-> name, kind |-> "file", text |-> t,
                 meta |-> [parse |-> "ok", title |-> TitleOf(name), date |-> 1,
                           favorite |-> FALSE]] : t \in IncompleteTexts }
    ELSE IF name = DirName
    THEN { [name |-> name, kind |-> "dir", text |-> <<>>, meta |-> NoMeta] }
    ELSE { [name |-> name, kind |-> "file", text |-> <<"x">>, meta |-> NoMeta] }

RECURSIVE ListingsOver(_, _)
ListingsOver(names, n) ==
    IF n = 0 THEN { <<>> }
    ELSE LET shorter == ListingsOver(names, n - 1) IN
         shorter \cup
         { Append(l, e) :
             l \in {x \in shorter : Len(x) = n - 1},
             e \in UNION { EntriesNamed(nm) : nm \in names } }

DistinctNames(l) == \A i, j \in 1..Len(l) : i # j => l[i].name # l[j].name

Listings(names, n) == { l \in ListingsOver(names, n) : DistinctNames(l) }

GoodBlog == [present |-> TRUE, text |-> GoodText,
             meta |-> [parse |-> "ok", title |-> "blog", date |-> 0, favorite |-> FALSE]]
BlogFiles ==
    { GoodBlog,
      [present |-> TRUE, text |-> <<"-","-","-","x","-","-">>, meta |-> GoodBlog.meta],
      [present |-> FALSE, text |-> <<>>, meta |-> NoMeta] }

NoCall == [fn |-> "none", arg |-> <<>>, res |-> Ok(<<>>)]
NoReq == [handler |-> "none", uri |-> <<>>]
NoResp == [status |-> 0, stat |-> None, open |-> None, read |-> None, body |-> None]
NoOut == [assets |-> None, post_assets |-> None, files |-> {}]
\* no request being handled: step is the handler's position, blog and
\* metadata what it has loaded, entries the listing it has still to go
\* through; read_blog and read_posts record the files as they were when the
\* handler read them and edited whether a file changed since the request came
NoHnd == [step |-> "idle", blog |-> None, entries |-> <<>>, metadata |-> <<>>,
          read_blog |-> None, read_posts |-> <<>>, edited |-> FALSE]

----------------------------------------------------------------------------
(* SpecLoad: the loader functions of content.rs applied to a content       *)
(* directory.                                                              *)

InitLoad ==
    /\ posts_dir \in Listings(PostNames \cup {<<"m",".","d">>, PlainName, DirName}, MaxEntries)
    /\ blog_md \in BlogFiles
    /\ tmpl = {MAIN_TEMPLATE, POST_TEMPLATE}
    /\ call = NoCall
    /\ pc = "start"
    /\ blog_templates = None
    /\ blog_content = None
    /\ todo = <<>>
    /\ out = NoOut
    /\ exit_code = -1
    /\ stderr = <<>>
    /\ req = NoReq
    /\ resp = NoResp
    /\ hnd = NoHnd

PostsDirPath == PathJoin(ContentArg, POST_SUBDIR)

LoadUnchanged == UNCHANGED <<posts_dir, blog_md, tmpl, pc, blog_templates, blog_content,
                             todo, out, exit_code, stderr, req, resp, hnd>>

CallReadPostFile ==
    /\ call = NoCall
    /\ \E i \in 1..Len(posts_dir) :
          LET path == PathJoin(PostsDirPath, posts_dir[i].name) IN
          call' = [fn |-> "read_post_file", arg |-> path, res |-> read_post_file(path)]
    /\ LoadUnchanged

CallReadPostMetadata ==
    /\ call = NoCall
    /\ \E i \in 1..Len(posts_dir) :
          LET path == PathJoin(PostsDirPath, posts_dir[i].name) IN
          call' = [fn |-> "read_post_metadata", arg |-> path, res |-> read_post_metadata(path)]
    /\ LoadUnchanged

CallReadBlogFile ==
    /\ call = NoCall
    /\ call' = [fn |-> "read_blog_file", arg |-> ContentArg, res |-> read_blog_file(ContentArg)]
    /\ LoadUnchanged

CallReadPostsMetadata ==
    /\ call = NoCall
    /\ call' = [fn |-> "read_posts_metadata", arg |-> PostsDirPath,
                res |-> read_posts_metadata(PostsDirPath)]
    /\ LoadUnchanged

CallBlogReadFrom ==
    /\ call = NoCall
    /\ call' = [fn |-> "Blog::read_from", arg |-> ContentArg, res |-> Blog_read_from(ContentArg)]
    /\ LoadUnchanged

NextLoad ==
    \/ CallReadPostFile
    \/ CallReadPostMetadata
    \/ CallReadBlogFile
    \/ CallReadPostsMetadata
    \/ CallBlogReadFrom

SpecLoad == InitLoad /\ [][NextLoad]_vars

----------------------------------------------------------------------------
(* SpecPure: split_content and process_markdown_images applied to texts    *)
(* and event streams of their own.                                         *)

RECURSIVE SeqsOver(_, _)
SeqsOver(elems, n) ==
    IF n = 0 THEN { <<>> }
    ELSE LET shorter == SeqsOver(elems, n - 1) IN
         shorter \cup { Append(t, c) : t \in {x \in shorter : Len(x) = n - 1}, c \in elems }

\* texts over a delimiter character and another character
Texts == SeqsOver({"-", "x"}, MaxText)

\* events of a Markdown stream: images, links and text, over two URLs
Events ==
    { [ev |-> k, url |-> u] : k \in {"Image", "Link", "Text"}, u \in { <<"x">>, <<"/", "p">> } }

EventStreams == SeqsOver(Events, MaxEvents)

InitPure ==
    /\ posts_dir = <<>>
    /\ blog_md = GoodBlog
    /\ tmpl = {MAIN_TEMPLATE, POST_TEMPLATE}
    /\ call = NoCall
    /\ pc = "start"
    /\ blog_templates = None
    /\ blog_content = None
    /\ todo = <<>>
    /\ out = NoOut
    /\ exit_code = -1
    /\ stderr = <<>>
    /\ req = NoReq
    /\ resp = NoResp
    /\ hnd = NoHnd

CallSplitContent ==
    /\ call = NoCall
    /\ \E content \in Texts :
          call' = [fn |-> "split_content", arg |-> content, res |-> split_content(content)]
    /\ LoadUnchanged

CallProcessMarkdownImages ==
    /\ call = NoCall
    /\ \E parser \in EventStreams :
          call' = [fn |-> "process_markdown_images", arg |-> parser,
                   res |-> [events |-> process_markdown_images(parser),
                            html |-> push_html(process_markdown_images(parser))]]
    /\ LoadUnchanged

NextPure == CallSplitContent \/ CallProcessMarkdownImages

SpecPure == InitPure /\ [][NextPure]_vars

----------------------------------------------------------------------------
(* templates.rs                                                            *)

\* Ramhorns::from_folder: the templates found in the folder
Ramhorns_from_folder(dir) ==
    LET r == Resolve(dir) IN
    IF ~r.ok THEN Err(Undefined(r.err))
    ELSE IF NodeKind(r.val) # "dir" THEN Err(Undefined("ENOTDIR"))
    ELSE IF r.val = TemplatesNode THEN Ok(tmpl)
    ELSE Ok({})

MainFromTemplates(templates) ==
    IF ~templates.ok THEN templates
    ELSE IF MAIN_TEMPLATE \notin templates.val THEN Err(NoBlogTemplateFound)
    ELSE Ok([templates |-> templates.val])

Main_read_from_dir(templates_dir) == MainFromTemplates(Ramhorns_from_folder(templates_dir))

PostFromTemplates(templates) ==
    IF ~templates.ok THEN templates
    ELSE IF POST_TEMPLATE \notin templates.val THEN Err(NoBlogTemplateFound)
    ELSE Ok([templates |-> templates.val])

Post_read_from_dir(templates_dir) == PostFromTemplates(Ramhorns_from_folder(templates_dir))

\* templates::Blog::read_from_dir
BlogFromParts(main, post) ==
    IF ~main.ok THEN main
    ELSE IF ~post.ok THEN post
    ELSE Ok([main |-> main.val, post |-> post.val])

TemplatesBlog_read_from_dir(templates_dir) ==
    BlogFromParts(Main_read_from_dir(templates_dir), Post_read_from_dir(templates_dir))

\* render_date_time: the "%Y-%m-%d %H:%M" text of timestamp d
render_date_time(d) == <<ToString(YearOf(d)), "-01-01 10:00">>

\* Main::render / Post::render: the template's text is outside the model;
\* the rendered page is what the template is given
Render(name, model) == [template |-> name, model |-> model]

----------------------------------------------------------------------------
(* pack.rs                                                                 *)

INDEX_HTML == <<"i","n","d","e","x",".","h","t","m","l">>

\* the closure of PackCommand::run that maps a post to its template model
PackPostModel(post) ==
    [title |-> post.title,
     date |-> post.date,
     tags |-> post.tags,
     summary |-> post.summary,
     root_page |-> INDEX_HTML,
     content |-> post.content,
     favorite |-> post.favorite,
     file_name |-> post.file_name,
     author |-> post.author,
     year |-> post.year]

PackMainModel(blog) ==
    [author |-> blog.author,
     title |-> blog.title,
     home_content |-> blog.home_content,
     twitter |-> blog.twitter,
     year |-> blog.year,
     posts |-> [i \in 1..Len(blog.posts) |-> PackPostModel(blog.posts[i])]]

\* the files of the templates' assets tree, relative to it
TemplateAssetFiles ==
    { SubSeq(f, Len(AssetsNode) + 1, Len(f)) :
        f \in { g \in FixedFiles : IsPrefixSeq(AssetsNode, g) } }

\* the output directories a run may find: none, or those of an earlier run
OutStates ==
    { [assets |-> None, post_assets |-> None, files |-> {}],
      [assets |-> Some({ << <<"o","l","d">> >> }),
       post_assets |-> Some({ <<"o","l","d">> }),
       files |-> {INDEX_HTML}] }

PackNames == PostNames \cup AssetNames

Init ==
    /\ posts_dir \in Listings(PackNames, MaxEntries)
    /\ blog_md \in BlogFiles
    /\ tmpl \in SUBSET {MAIN_TEMPLATE, POST_TEMPLATE}
    /\ call = NoCall
    /\ pc = "ensure_assets"
    /\ blog_templates = None
    /\ blog_content = None
    /\ todo = <<>>
    /\ out \in OutStates
    /\ exit_code = -1
    /\ stderr = <<>>
    /\ req = NoReq
    /\ resp = NoResp
    /\ hnd = NoHnd

PackInputs == <<posts_dir, blog_md, tmpl, call, req, resp, hnd>>

\* faulty variant: the message is printed and the process ends with status 0
FatalExitZero(err) ==
    /\ stderr' = Append(stderr, err)
    /\ exit_code' = 0
    /\ pc' = "failed"

\* err.fatal(); exit(1)
Fatal(err) ==
    /\ stderr' = Append(stderr, err)
    /\ exit_code' = 1
    /\ pc' = "failed"

\* a panic of the main thread: the panic message is printed and the
\* process ends with status 101
Panic(msg) ==
    /\ stderr' = Append(stderr, [kind |-> "panic", arg |-> msg])
    /\ exit_code' = 101
    /\ pc' = "panicked"

\* what the file system may do to ensure_dir_is_empty on a directory that
\* holds `entries` (None: the directory does not exist): obey, fail in
\* remove_dir_all with `left` still in the directory, or fail in create_dir
EnsureOutcomes(entries) ==
    { [at |-> "none", left |-> {}], [at |-> "create", left |-> {}] }
    \cup (IF entries.some
          THEN { [at |-> "remove", left |-> l] : l \in SUBSET entries.val }
          ELSE {})

\* ensure_dir_is_empty: its result and the directory it leaves
ensure_dir_is_empty(entries, io) ==
    IF entries.some /\ io.at = "remove"
    THEN [res |-> Err(Undefined("io")), dir |-> Some(io.left)]
    ELSE IF io.at = "create"
    THEN [res |-> Err(Undefined("io")), dir |-> None]
    ELSE [res |-> Ok(<<>>), dir |-> Some({})]

\* run, lines 28-35
PackEnsureAssets ==
    /\ pc = "ensure_assets"
    /\ \E io \in EnsureOutcomes(out.assets) :
          /\ out' = [out EXCEPT !.assets = ensure_dir_is_empty(out.assets, io).dir]
          /\ IF ensure_dir_is_empty(out.assets, io).res.ok
             THEN /\ pc' = "copy_assets"
                  /\ UNCHANGED <<stderr, exit_code>>
             ELSE Fatal(ensure_dir_is_empty(out.assets, io).res.err)
    /\ UNCHANGED <<PackInputs, blog_templates, blog_content, todo>>

\* copy_dir: it copies entry after entry in the order read_dir yields and
\* returns at the first error, so a failure leaves the files copied before
\* it (and the file a failing fs::copy may have created)
CopyDirOutcomes(files) ==
    { [res |-> Ok(<<>>), copied |-> files] }
    \cup { [res |-> Err(Undefined("io")), copied |-> c] : c \in SUBSET files }

\* run, lines 36-39: copy_dir
PackCopyAssets ==
    /\ pc = "copy_assets"
    /\ \E io \in CopyDirOutcomes(TemplateAssetFiles) :
          /\ out' = [out EXCEPT !.assets = Some(out.assets.val \cup io.copied)]
          /\ IF io.res.ok
             THEN /\ pc' = "load_templates"
                  /\ UNCHANGED <<stderr, exit_code>>
             ELSE Fatal(io.res.err)
    /\ UNCHANGED <<PackInputs, blog_templates, blog_content, todo>>

\* run, lines 42-46
PackLoadTemplates ==
    /\ pc = "load_templates"
    /\ blog_templates' = Some(TemplatesBlog_read_from_dir(TemplatesArg))
    /\ IF blog_templates'.val.ok
       THEN /\ pc' = "read_content"
            /\ UNCHANGED <<stderr, exit_code>>
       ELSE Fatal(blog_templates'.val.err)
    /\ UNCHANGED <<PackInputs, blog_content, todo, out>>

\* run, lines 49-82
PackReadContent ==
    /\ pc = "read_content"
    /\ blog_content' = Some(Blog_read_from(ContentArg))
    /\ IF blog_content'.val.ok
       THEN /\ pc' = "write_main"
            /\ UNCHANGED <<stderr, exit_code>>
       ELSE Fatal(blog_content'.val.err)
    /\ UNCHANGED <<PackInputs, blog_templates, todo, out>>

\* fs::write and fs::copy: the file is written; or the call fails, before
\* the file is created or after (what it then holds is not in the model)
WriteOutcomes ==
    { [res |-> Ok(<<>>), created |-> TRUE],
      [res |-> Err(Undefined("io")), created |-> FALSE],
      [res |-> Err(Undefined("io")), created |-> TRUE] }

\* run, lines 85-93
PackWriteMain ==
    /\ pc = "write_main"
    /\ \E io \in WriteOutcomes :
          /\ out' = [out EXCEPT !.files = IF io.created THEN @ \cup {INDEX_HTML} ELSE @]
          /\ IF io.res.ok
             THEN /\ todo' = PackMainModel(blog_content.val.val).posts
                  /\ pc' = "write_posts"
                  /\ UNCHANGED <<stderr, exit_code>>
             ELSE /\ Fatal(io.res.err)
                  /\ UNCHANGED todo
    /\ UNCHANGED <<PackInputs, blog_templates, blog_content>>

\* run, lines 95-106: one iteration of the loop over the posts
PackWritePost ==
    /\ pc = "write_posts"
    /\ todo # <<>>
    /\ \E io \in WriteOutcomes :
          /\ out' = [out EXCEPT !.files = IF io.created THEN @ \cup {Head(todo).file_name} ELSE @]
          /\ IF io.res.ok
             THEN /\ todo' = Tail(todo)
                  /\ UNCHANGED <<pc, stderr, exit_code>>
             ELSE /\ Fatal(io.res.err)
                  /\ UNCHANGED todo
    /\ UNCHANGED <<PackInputs, blog_templates, blog_content>>

\* run, lines 110-112: the posts are written, the loop over the assets starts
PackPostsWritten ==
    /\ pc = "write_posts"
    /\ todo = <<>>
    /\ todo' = blog_content.val.val.post_assets
    /\ pc' = "copy_post_assets"
    /\ UNCHANGED <<PackInputs, blog_templates, blog_content, out, stderr, exit_code>>

\* run, lines 112-127: one iteration of the loop over the assets
PackCopyPostAsset ==
    /\ pc = "copy_post_assets"
    /\ todo # <<>>
    /\ \E io \in EnsureOutcomes(out.post_assets), cp \in WriteOutcomes :
          IF ~ensure_dir_is_empty(out.post_assets, io).res.ok
          THEN /\ out' = [out EXCEPT !.post_assets = ensure_dir_is_empty(out.post_assets, io).dir]
               /\ Fatal(ensure_dir_is_empty(out.post_assets, io).res.err)
               /\ UNCHANGED todo
          ELSE IF ~to_str(UnwrapOrDefault(FileName(Head(todo)), <<>>)).some
          THEN /\ out' = [out EXCEPT !.post_assets = Some({})]
               /\ Panic("called Option::unwrap() on a None value")
               /\ UNCHANGED todo
          ELSE /\ out' = [out EXCEPT !.post_assets =
                              IF cp.created
                              THEN Some({to_str(UnwrapOrDefault(FileName(Head(todo)), <<>>)).val})
                              ELSE Some({})]
               /\ IF cp.res.ok
                  THEN /\ todo' = Tail(todo)
                       /\ UNCHANGED <<pc, stderr, exit_code>>
                  ELSE /\ Fatal(cp.res.err)
                       /\ UNCHANGED todo
    /\ UNCHANGED <<PackInputs, blog_templates, blog_content>>

\* run returns, line 128
PackDone ==
    /\ pc = "copy_post_assets"
    /\ todo = <<>>
    /\ pc' = "done"
    /\ exit_code' = 0
    /\ UNCHANGED <<PackInputs, blog_templates, blog_content, todo, out, stderr>>

Next ==
    \/ PackEnsureAssets
    \/ PackCopyAssets
    \/ PackLoadTemplates
    \/ PackReadContent
    \/ PackWriteMain
    \/ PackWritePost
    \/ PackPostsWritten
    \/ PackCopyPostAsset
    \/ PackDone

Spec == Init /\ [][Next]_vars

----------------------------------------------------------------------------
(* serve/mod.rs                                                            *)

ROOT_ROUTE == <<"/">>

\* Response::from_status
FromStatus(code) == [status |-> code, stat |-> None, open |-> None, read |-> None, body |-> None]

\* faulty variant: the whole file name is compared with the extensions
has_any_file_name(path, extensions) ==
    IF ~FileName(path).some THEN FALSE ELSE FileName(path).val \in extensions

\* HasAnyExtension::has_any_extension
has_any_extension(path, extensions) ==
    IF ~Extension(path).some THEN FALSE ELSE Extension(path).val \in extensions

\* serve_static, lines 373-408: r is what the kernel makes of the path
StaticStat(path, r) ==
    IF ~r.ok
    THEN [status |-> IF r.err = "ENOENT" THEN 404 ELSE 500,
          stat |-> Some(path), open |-> None, read |-> None, body |-> None]
    ELSE [status |-> 200, stat |-> Some(path), open |-> Some(path), read |-> None,
          body |-> Some(r.val)]

\* serve_static, lines 367-372
StaticFile(base_dir, uri) == StaticStat(PathJoin(base_dir, uri), Resolve(PathJoin(base_dir, uri)))

\* serve_static, lines 359-365
StaticRooted(base_dir, uri) ==
    IF StrStartsWith(uri, <<"/">>)
    THEN IF Len(uri) < 2 THEN FromStatus(404) ELSE StaticFile(base_dir, StrFrom(uri, 1))
    ELSE StaticFile(base_dir, uri)

\* serve_static, lines 349-357
StaticStripped(base_dir, stripped) ==
    IF ~stripped.ok THEN FromStatus(400) ELSE StaticRooted(base_dir, stripped.val)

serve_static(route, base_dir, uri, exclude_extensions) ==
    IF has_any_extension(uri, exclude_extensions) THEN FromStatus(404)
    ELSE StaticStripped(base_dir, IF PathStartsWith(uri, route)
                                  THEN StripPrefix(uri, route)
                                  ELSE Ok(uri))

\* faulty variant: the favorite flag is dropped, as in the listing model
ServePostModelNoFavorite(post, post_file) ==
    [author |-> post.author,
     title |-> post.title,
     root_page |-> <<"/">>,
     content |-> post.content,
     date |-> post.date,
     favorite |-> FALSE,
     file_name |-> post_file,
     summary |-> post.summary,
     tags |-> post.tags,
     year |-> post.year]

\* the model generate_post_content gives the post template
ServePostModel(post, post_file) ==
    [author |-> post.author,
     title |-> post.title,
     root_page |-> ROOT_ROUTE,
     content |-> post.content,
     date |-> post.date,
     favorite |-> post.favorite,
     file_name |-> post_file,
     summary |-> post.summary,
     tags |-> post.tags,
     year |-> post.year]

\* faulty variant: a post that cannot be loaded is answered as not found
PostContentNotFound(post_file_path, post_file, post) ==
    IF ~post.ok
    THEN [status |-> 404, stat |-> None, open |-> None, read |-> Some(post_file_path),
          body |-> None]
    ELSE [status |-> 200, stat |-> None, open |-> None, read |-> Some(post_file_path),
          body |-> Some(Render(POST_TEMPLATE, ServePostModel(post.val, post_file)))]

PostContentFrom(post_file_path, post_file, post) ==
    IF ~post.ok
    THEN [status |-> 500, stat |-> None, open |-> None, read |-> Some(post_file_path),
          body |-> None]
    ELSE [status |-> 200, stat |-> None, open |-> None, read |-> Some(post_file_path),
          body |-> Some(Render(POST_TEMPLATE, ServePostModel(post.val, post_file)))]

\* generate_post_content and the match on its result in serve_post
generate_post_content(post_content_dir, post_file) ==
    PostContentFrom(PathJoin(PathJoin(post_content_dir, POST_SUBDIR), post_file) \o DOT_MD,
                    post_file,
                    read_post_file(PathJoin(PathJoin(post_content_dir, POST_SUBDIR), post_file)
                                   \o DOT_MD))

\* faulty variant: the whole path left after the route names the post
PostStrippedWholePath(content_dir, stripped) ==
    IF ~stripped.ok THEN FromStatus(400)
    ELSE generate_post_content(content_dir, stripped.val)

\* serve_post, lines 195-222
PostStripped(content_dir, stripped) ==
    IF ~stripped.ok THEN FromStatus(400)
    ELSE generate_post_content(content_dir, UnwrapOrDefault(FileName(stripped.val), <<>>))

serve_post(content_dir, uri) ==
    IF UnwrapOrDefault(Extension(uri), <<>>) = MD THEN FromStatus(404)
    ELSE PostStripped(content_dir, StripPrefix(uri, POSTS_ROUTE))

\* the model generate_main_page_content gives the home template for one post
ListingModel(metadata) ==
    [author |-> metadata.author,
     title |-> metadata.title,
     content |-> <<>>,
     date |-> metadata.date,
     file_name |-> POSTS_ROUTE \o <<"/">> \o StrRemoveAll(metadata.file_name, DOT_MD),
     root_page |-> ROOT_ROUTE,
     summary |-> metadata.summary,
     tags |-> metadata.tags,
     favorite |-> FALSE,
     year |-> ""]

MainModelFrom(blog, posts_metadata) ==
    IF ~blog.ok THEN blog
    ELSE IF ~posts_metadata.ok THEN posts_metadata
    ELSE Ok([author |-> blog.val.author,
             title |-> blog.val.title,
             home_content |-> blog.val.home_content,
             twitter |-> blog.val.twitter,
             year |-> blog.val.year,
             posts |-> [i \in 1..Len(posts_metadata.val) |-> ListingModel(posts_metadata.val[i])]])

\* generate_main_page_content up to the model it renders
generate_main_page_content(content_dir) ==
    MainModelFrom(read_blog_file(content_dir),
                  read_posts_metadata(PathJoin(content_dir, POST_SUBDIR)))

MainPageFrom(model) ==
    IF ~model.ok THEN [FromStatus(500) EXCEPT !.read = Some(<<>>)]
    ELSE [status |-> 200, stat |-> None, open |-> None, read |-> Some(<<>>),
          body |-> Some(Render(MAIN_TEMPLATE, model.val))]

\* faulty variant: the home page is the answer to every path
serve_main_page_any_path(content_dir, uri) ==
    MainPageFrom(generate_main_page_content(content_dir))

serve_main_page(content_dir, uri) ==
    IF uri = <<"/">> \/ uri = <<>> THEN MainPageFrom(generate_main_page_content(content_dir))
    ELSE FromStatus(404)

\* the closures build_simple_router registers
Handle(handler, uri) ==
    IF handler = "assets"
    THEN serve_static(ASSETS_ROUTE, PathJoin(TemplatesArg, ASSETS_SUBDIR), uri, {MD})
    ELSE IF handler = "post_assets"
    THEN serve_static(POST_ASSETS_ROUTE, PathJoin(ContentArg, POST_SUBDIR), uri, {MD})
    ELSE IF handler = "posts"
    THEN serve_post(ContentArg, uri)
    ELSE serve_main_page(ContentArg, uri)

\* request paths: empty, or starting with "/": a route (or nothing) followed
\* by a tail over "/", ".", "m", "d"
TailChars == {"/", ".", "m", "d"}

RECURSIVE Tails(_)
Tails(n) ==
    IF n = 0 THEN { <<>> }
    ELSE LET shorter == Tails(n - 1) IN
         shorter \cup { Append(t, c) : t \in {x \in shorter : Len(x) = n - 1}, c \in TailChars }

Prefixes == { <<>>, ASSETS_ROUTE, POSTS_ROUTE, POST_ASSETS_ROUTE }

Uris == { u \in { p \o t : p \in Prefixes, t \in Tails(MaxTail) } : u = <<>> \/ HasRoot(u) }

GoodPost(name, d) ==
    [name |-> name, kind |-> "file", text |-> GoodText,
     meta |-> [parse |-> "ok", title |-> TitleOf(name), date |-> d,
               favorite |-> (name = <<"m",".","m","d">>)]]

\* the posts directories the server runs on: two valid posts with any
\* timestamps, beside an asset, a subdirectory and a file
\* with no extension; one with a post that has no front matter; and one
\* with the valid posts m.md and m.md.md
ServeListings ==
    { <<GoodPost(<<"m",".","m","d">>, da), GoodPost(<<"d",".","m","d">>, db)>> \o rest :
        da \in 1..MaxDate, db \in 1..MaxDate,
        rest \in { l \in Listings({<<"m",".","d">>, PlainName, DirName}, 3) : Len(l) = 3
                       /\ l[1].name = <<"m",".","d">> /\ l[2].name = PlainName } }
    \cup { l \in Listings({<<"m",".","m","d">>}, 1) : Len(l) = 1 /\ l[1].text # GoodText }
    \cup { <<GoodPost(<<"m",".","m","d">>, 1), GoodPost(<<"m",".","m","d",".","m","d">>, MaxDate)>> }

\* the content directories the server runs on: each of the posts
\* directories with a valid blog.md, and two valid posts with a blog.md that
\* does not load
ServeContents ==
    { [posts |-> l, blog |-> GoodBlog] : l \in ServeListings }
    \cup { [posts |-> l, blog |-> b] :
             l \in { x \in ServeListings : Len(x) > 1 /\ x[1].meta.date = 1 /\ x[2].meta.date = 1 },
             b \in BlogFiles \ {GoodBlog} }

InitServe ==
    /\ \E c \in ServeContents : posts_dir = c.posts /\ blog_md = c.blog
    /\ tmpl = {MAIN_TEMPLATE, POST_TEMPLATE}
    /\ call = NoCall
    /\ pc = "serving"
    /\ blog_templates = Some(TemplatesBlog_read_from_dir(TemplatesArg))
    /\ blog_content = None
    /\ todo = <<>>
    /\ out = NoOut
    /\ exit_code = -1
    /\ stderr = <<>>
    /\ req = NoReq
    /\ resp = NoResp
    /\ hnd = NoHnd

ServeUnchanged == UNCHANGED <<posts_dir, blog_md, tmpl, call, pc, blog_templates,
                              blog_content, todo, out, exit_code, stderr, hnd>>

\* a request is handed to one of the four handlers, which answers it
Request ==
    /\ req = NoReq
    /\ \E handler \in {"main", "assets", "posts", "post_assets"}, uri \in Uris :
          /\ req' = [handler |-> handler, uri |-> uri]
          /\ resp' = Handle(handler, uri)
    /\ ServeUnchanged

\* the response is written and the connection is free for the next request
Respond ==
    /\ req # NoReq
    /\ req' = NoReq
    /\ resp' = NoResp
    /\ ServeUnchanged

NextServe == Request \/ Respond

SpecServe == InitServe /\ [][NextServe]_vars

----------------------------------------------------------------------------
(* SpecFresh: home-page and post requests interleaved with changes of the  *)
(* content files.  The home-page handler reads blog.md, lists the posts    *)
(* directory and reads the .md files one after the other, and a file may   *)
(* change between any two of these reads.  `call` records the last request *)
(* answered and its response (a history of the run, not a state of the     *)
(* server).                                                                *)

FreshUris == { ROOT_ROUTE, POSTS_ROUTE \o <<"/", "m">>, POSTS_ROUTE \o <<"/", "d">> }

\* the entries the posts directory may get while the server runs
FreshEntries ==
    { GoodPost(<<"m",".","m","d">>, d) : d \in 1..MaxDate }
    \cup { [GoodPost(<<"m",".","m","d">>, 1) EXCEPT !.text = <<"-","-","-","x","-","-">>],
           GoodPost(<<"d",".","m","d">>, 1),
           [name |-> <<"m",".","d">>, kind |-> "file", text |-> <<"x">>, meta |-> NoMeta] }

InitFresh ==
    /\ posts_dir \in { l \in SeqsOver(FreshEntries, MaxFreshEntries) : DistinctNames(l) }
    /\ blog_md \in BlogFiles
    /\ tmpl = {MAIN_TEMPLATE, POST_TEMPLATE}
    /\ call = NoCall
    /\ pc = "serving"
    /\ blog_templates = Some(TemplatesBlog_read_from_dir(TemplatesArg))
    /\ blog_content = None
    /\ todo = <<>>
    /\ out = NoOut
    /\ exit_code = -1
    /\ stderr = <<>>
    /\ req = NoReq
    /\ resp = NoResp
    /\ hnd = NoHnd

FreshUnchanged == UNCHANGED <<tmpl, pc, blog_templates, blog_content, todo, out,
                              exit_code, stderr>>

\* the entry of the posts directory a name stands for, as it is now
DiskEntry(name) ==
    IF EntryIndex(name) = 0
    THEN [name |-> name, kind |-> "none", text |-> <<>>, meta |-> NoMeta]
    ELSE posts_dir[EntryIndex(name)]

\* a request comes in: serve_main_page on "/" starts
\* generate_main_page_content; every other request is answered with at most
\* one read of a file
RequestFresh ==
    /\ req = NoReq
    /\ \E handler \in {"main", "posts"}, uri \in FreshUris :
          /\ req' = [handler |-> handler, uri |-> uri]
          /\ IF handler = "main" /\ uri = ROOT_ROUTE
             THEN /\ hnd' = [NoHnd EXCEPT !.step = "blog"]
                  /\ resp' = NoResp
             ELSE /\ hnd' = [NoHnd EXCEPT !.step = "done",
                                          !.read_posts =
                                              IF Handle(handler, uri).read.some
                                              THEN <<DiskEntry(UnwrapOrDefault(
                                                       FileName(Handle(handler, uri).read.val),
                                                       <<>>))>>
                                              ELSE <<>>]
                  /\ resp' = Handle(handler, uri)
    /\ UNCHANGED <<posts_dir, blog_md, call>>
    /\ FreshUnchanged

\* generate_main_page_content, line 294: read_blog_file(&content_dir)?
MainReadBlog ==
    /\ hnd.step = "blog"
    /\ hnd' = [hnd EXCEPT !.blog = Some(read_blog_file(ContentArg)),
                          !.read_blog = Some(blog_md),
                          !.step = IF read_blog_file(ContentArg).ok THEN "list" ELSE "done"]
    /\ resp' = IF hnd'.step = "done"
               THEN MainPageFrom(MainModelFrom(hnd'.blog.val, Ok(<<>>)))
               ELSE resp
    /\ UNCHANGED <<posts_dir, blog_md, call, req>>
    /\ FreshUnchanged

\* read_posts_metadata, line 160: read_dir yields the entries' names and types
MainListDir ==
    /\ hnd.step = "list"
    /\ hnd' = [hnd EXCEPT !.entries =
                              IF ReadDir(PostsDirPath).ok
                              THEN [i \in 1..Len(ReadDir(PostsDirPath).val) |->
                                      [name |-> ReadDir(PostsDirPath).val[i].name,
                                       kind |-> ReadDir(PostsDirPath).val[i].kind]]
                              ELSE <<>>,
                          !.step = IF ReadDir(PostsDirPath).ok THEN "posts" ELSE "done"]
    /\ resp' = IF hnd'.step = "done"
               THEN MainPageFrom(MainModelFrom(hnd.blog.val, ReadDir(PostsDirPath)))
               ELSE resp
    /\ UNCHANGED <<posts_dir, blog_md, call, req>>
    /\ FreshUnchanged

\* read_posts_metadata, lines 161-176: one iteration of the loop; an entry
\* with extension md is read from the disk as it is now
MainReadEntry ==
    /\ hnd.step = "posts"
    /\ hnd.entries # <<>>
    /\ IF EntryClass(Head(hnd.entries),
                     Extension(PathJoin(PostsDirPath, Head(hnd.entries).name))) # "content"
       THEN /\ hnd' = [hnd EXCEPT !.entries = Tail(hnd.entries)]
            /\ resp' = resp
       ELSE IF read_post_metadata(UnwrapOrDefault(
                   to_str(PathJoin(PostsDirPath, Head(hnd.entries).name)), <<>>)).ok
       THEN /\ hnd' = [hnd EXCEPT
                          !.entries = Tail(hnd.entries),
                          !.metadata = Append(hnd.metadata,
                              read_post_metadata(UnwrapOrDefault(
                   to_str(PathJoin(PostsDirPath, Head(hnd.entries).name)), <<>>)).val),
                          !.read_posts = Append(hnd.read_posts, DiskEntry(Head(hnd.entries).name))]
            /\ resp' = resp
       ELSE /\ hnd' = [hnd EXCEPT
                          !.step = "done",
                          !.read_posts = Append(hnd.read_posts, DiskEntry(Head(hnd.entries).name))]
            /\ resp' = MainPageFrom(MainModelFrom(hnd.blog.val,
                          read_post_metadata(UnwrapOrDefault(
                   to_str(PathJoin(PostsDirPath, Head(hnd.entries).name)), <<>>))))
    /\ UNCHANGED <<posts_dir, blog_md, call, req>>
    /\ FreshUnchanged

\* generate_main_page_content, lines 297-329, and serve_main_page, lines
\* 234-238: the listing is rendered
MainRender ==
    /\ hnd.step = "posts"
    /\ hnd.entries = <<>>
    /\ hnd' = [hnd EXCEPT !.step = "done"]
    /\ resp' = MainPageFrom(MainModelFrom(hnd.blog.val, Ok(hnd.metadata)))
    /\ UNCHANGED <<posts_dir, blog_md, call, req>>
    /\ FreshUnchanged

\* the response is written
RespondFresh ==
    /\ hnd.step = "done"
    /\ call' = [fn |-> "answered", arg |-> req, res |-> resp]
    /\ req' = NoReq
    /\ resp' = NoResp
    /\ hnd' = NoHnd
    /\ UNCHANGED <<posts_dir, blog_md>>
    /\ FreshUnchanged

\* the listing without its i-th entry
RemoveAt(entries, i) == SubSeq(entries, 1, i - 1) \o SubSeq(entries, i + 1, Len(entries))

\* the listing with e after its first k entries: read_dir promises no
\* order, so a new entry may show up anywhere among the others
InsertAt(entries, k, e) == SubSeq(entries, 1, k) \o <<e>> \o SubSeq(entries, k + 1, Len(entries))

\* one change of the content files, at any moment: a file of the posts
\* directory is removed, created or rewritten (in place, or by a new file
\* put in its place, which read_dir may list anywhere), or blog.md is
EditContent ==
    /\ \/ \E i \in 1..Len(posts_dir) :
             /\ posts_dir' = RemoveAt(posts_dir, i)
             /\ blog_md' = blog_md
       \/ \E e \in FreshEntries, k \in 0..Len(posts_dir) :
             /\ Len(posts_dir) < MaxFreshEntries
             /\ EntryIndex(e.name) = 0
             /\ posts_dir' = InsertAt(posts_dir, k, e)
             /\ blog_md' = blog_md
       \/ \E i \in 1..Len(posts_dir), e \in FreshEntries, k \in 0..(Len(posts_dir) - 1) :
             /\ e.name = posts_dir[i].name
             /\ e # posts_dir[i]
             /\ posts_dir' = InsertAt(RemoveAt(posts_dir, i), k, e)
             /\ blog_md' = blog_md
       \/ \E b \in BlogFiles :
             /\ b # blog_md
             /\ blog_md' = b
             /\ posts_dir' = posts_dir
    /\ hnd' = [hnd EXCEPT !.edited = (hnd.edited \/ req # NoReq)]
    /\ UNCHANGED <<call, req, resp>>
    /\ FreshUnchanged

NextFresh ==
    \/ RequestFresh
    \/ MainReadBlog
    \/ MainListDir
    \/ MainReadEntry
    \/ MainRender
    \/ RespondFresh
    \/ EditContent

SpecFresh == InitFresh /\ [][NextFresh]_vars

----------------------------------------------------------------------------
(* Claims about the loader (SpecLoad).                                     *)

IsMdFile(e) == e.kind = "file" /\ Extension(e.name) = Some(MD)

\* the text neither starts with "---" nor, if it does, holds a later "---"
NoCompleteFrontMatter(text) ==
    ~ /\ Len(text) >= 3
      /\ SubSeq(text, 1, 3) = DELIMITER
      /\ \E i \in 4..(Len(text) - 2) : SubSeq(text, i, i + 2) = DELIMITER

\* position in the directory enumeration of the file a post was read from
EnumPos(post) == CHOOSE i \in 1..Len(posts_dir) : posts_dir[i].meta.title = post.title

\* C4: the posts of the collection Blog::read_from returns are sorted by
\* publish timestamp, newest first, and posts with equal timestamps keep
\* the order in which the directory enumerated them.
C4_SortedStable ==
    (call.fn = "Blog::read_from" /\ call.res.ok) =>
        LET posts == call.res.val.posts IN
        \A i, j \in 1..Len(posts) :
            i < j => /\ posts[i].date >= posts[j].date
                     /\ (posts[i].date = posts[j].date => EnumPos(posts[i]) < EnumPos(posts[j]))

\* three posts were loaded, the enumeration had an older post before a
\* newer one, and two posts tie
C4_Witness ==
    /\ call.fn = "Blog::read_from"
    /\ call.res.ok
    /\ Len(call.res.val.posts) = 3
    /\ call.res.val.posts[2].date = call.res.val.posts[3].date
    /\ call.res.val.posts[1].date > call.res.val.posts[2].date
    /\ EnumPos(call.res.val.posts[1]) > EnumPos(call.res.val.posts[2])

FileAtPath(path) == posts_dir[EntryIndex(FileName(path).val)]

\* C9: loading a .md file with no complete front-matter block fails with
\* NoFrontMatter naming the file, in read_post_file, read_post_metadata and
\* read_blog_file; and one such file among the posts (or such a blog.md)
\* makes Blog::read_from and read_posts_metadata fail as a whole.
C9_NoFrontMatterFails ==
    /\ (/\ call.fn \in {"read_post_file", "read_post_metadata"}
        /\ FileAtPath(call.arg).kind = "file"
        /\ NoCompleteFrontMatter(FileAtPath(call.arg).text))
       => call.res = Err(NoFrontMatter(call.arg))
    /\ (/\ call.fn = "read_blog_file"
        /\ blog_md.present
        /\ NoCompleteFrontMatter(blog_md.text))
       => call.res = Err(NoFrontMatter(PathJoin(ContentArg, BLOG_FILE)))
    /\ (/\ call.fn \in {"Blog::read_from", "read_posts_metadata"}
        /\ \E i \in 1..Len(posts_dir) :
              IsMdFile(posts_dir[i]) /\ NoCompleteFrontMatter(posts_dir[i].text))
       => ~call.res.ok
    /\ (/\ call.fn = "Blog::read_from"
        /\ blog_md.present
        /\ NoCompleteFrontMatter(blog_md.text))
       => ~call.res.ok

\* a collection load failed on the third file, one whose "---" is never
\* closed, after two valid posts
C9_Witness ==
    /\ call.fn = "Blog::read_from"
    /\ Len(posts_dir) = 3
    /\ \A i \in 1..2 : IsMdFile(posts_dir[i]) /\ posts_dir[i].text = GoodText
                       /\ posts_dir[i].meta.parse = "ok"
    /\ IsMdFile(posts_dir[3])
    /\ posts_dir[3].text = <<"-","-","-","x","-","-">>
    /\ call.res = Err(NoFrontMatter(PathJoin(PostsDirPath, posts_dir[3].name)))

----------------------------------------------------------------------------
(* Claims about the pack run (Spec).                                       *)

\* basenames of the files of the posts directory that have an extension
\* other than md
DiscoveredAssets ==
    { posts_dir[i].name : i \in { j \in 1..Len(posts_dir) :
          /\ posts_dir[j].kind = "file"
          /\ Extension(posts_dir[j].name).some
          /\ Extension(posts_dir[j].name) # Some(MD) } }

\* C1: after a successful pack run the output post_assets directory exists
\* and holds exactly the basenames of the discovered assets, whatever their
\* number, and nothing of an earlier run.
C1_PostAssetsExact ==
    pc = "done" => out.post_assets = Some(DiscoveredAssets)

\* C10: constructing the template set fails when index.html or post.html
\* is missing, and a missing post.html is reported with another error kind
\* than a missing index.html.
C10_DistinctTemplateErrors ==
    blog_templates.some =>
        /\ (MAIN_TEMPLATE \notin tmpl \/ POST_TEMPLATE \notin tmpl) => ~blog_templates.val.ok
        /\ (MAIN_TEMPLATE \in tmpl /\ POST_TEMPLATE \notin tmpl) =>
              /\ ~blog_templates.val.ok
              /\ blog_templates.val.err.kind
                    # MainFromTemplates(Ok(tmpl \ {MAIN_TEMPLATE})).err.kind

----------------------------------------------------------------------------
(* Claims about the serve handlers (SpecServe).                            *)

IsStatic(handler) == handler \in {"assets", "post_assets"}
RouteOf(handler) == IF handler = "assets" THEN ASSETS_ROUTE ELSE POST_ASSETS_ROUTE
BaseNodeOf(handler) == IF handler = "assets" THEN AssetsNode ELSE PostsNode

\* where a path leads when "." and ".." are resolved on the text alone
RECURSIVE LexicalWalk(_, _)
LexicalWalk(cur, segs) ==
    IF segs = <<>> THEN cur
    ELSE IF Head(segs) = <<>> \/ Head(segs) = CurDir THEN LexicalWalk(cur, Tail(segs))
    ELSE IF Head(segs) = ParentDir THEN LexicalWalk(Parent(cur), Tail(segs))
    ELSE LexicalWalk(Append(cur, Head(segs)), Tail(segs))

LexicalNode(path) == LexicalWalk(<<>>, Split(path))

\* the last segment of the path that is neither empty nor "."
RECURSIVE LastSegment(_)
LastSegment(segs) ==
    IF segs = <<>> THEN <<>>
    ELSE IF segs[Len(segs)] = <<>> \/ segs[Len(segs)] = CurDir
    THEN LastSegment(SubSeq(segs, 1, Len(segs) - 1))
    ELSE segs[Len(segs)]

\* the path names a file <stem>.md with a stem that is not empty
HasMdExtension(uri) ==
    LET name == LastSegment(Split(uri)) IN
    /\ Len(name) > 3
    /\ SubSeq(name, Len(name) - 2, Len(name)) = DOT_MD

\* the template models a pack run builds from the same content directory
PackModels ==
    LET blog == Blog_read_from(ContentArg) IN
    IF blog.ok THEN { PackPostModel(blog.val.posts[i]) : i \in 1..Len(blog.val.posts) }
    ELSE {}

ServedPost == req.handler = "posts" /\ resp.status = 200

\* C2 as stated: the model serve mode builds for a post equals the one
\* pack mode builds for it in every field except root_page.
C2_EqualButRootPage ==
    ServedPost =>
        \A pm \in PackModels :
            pm.title = resp.body.val.model.title =>
                [pm EXCEPT !.root_page = <<>>] = [resp.body.val.model EXCEPT !.root_page = <<>>]

\* where the two models differ and where they agree: root_page is
\* "index.html" in pack and "/" in serve, file_name is the page's file
\* "<name>.html" in pack and the requested "<name>" in serve, and every
\* other field is equal.
C2_EqualButRootPageAndFileName ==
    ServedPost =>
        \A pm \in PackModels :
            pm.title = resp.body.val.model.title =>
                /\ [pm EXCEPT !.root_page = <<>>, !.file_name = <<>>]
                      = [resp.body.val.model EXCEPT !.root_page = <<>>, !.file_name = <<>>]
                /\ pm.root_page = INDEX_HTML
                /\ resp.body.val.model.root_page = <<"/">>
                /\ pm.file_name = resp.body.val.model.file_name \o <<".">> \o HTML

\* a favorite post was served that a pack run of the same directory renders too
C2_Witness ==
    /\ ServedPost
    /\ resp.body.val.model.favorite
    /\ \E pm \in PackModels : pm.title = resp.body.val.model.title

\* C3: the home page of serve mode lists the posts newest first, whatever
\* order the directory enumeration has.
C3_ListingNewestFirst ==
    (req.handler = "main" /\ resp.status = 200) =>
        LET posts == resp.body.val.model.posts IN
        \A i, j \in 1..Len(posts) : i < j => posts[i].date >= posts[j].date

\* C5: the file serve_static stats and opens lies inside the handler's
\* base directory, for every request path.
C5_InsideBaseDir ==
    IsStatic(req.handler) =>
        /\ resp.stat.some => IsPrefixSeq(BaseNodeOf(req.handler), LexicalNode(resp.stat.val))
        /\ resp.open.some => IsPrefixSeq(BaseNodeOf(req.handler), resp.body.val)

\* C6: a request for the bare route prefix gets 404 from serve_static and
\* the base directory is neither stat'ed nor opened.
C6_BarePrefixNotFound ==
    (IsStatic(req.handler) /\ req.uri = RouteOf(req.handler)) =>
        /\ resp.status = 404
        /\ resp.stat = None
        /\ resp.open = None

\* C7: a request whose path has the extension .md gets 404 from serve_post
\* and from serve_static on both routes, whether the file exists or not,
\* and no file is touched for it.
C7_MdNotFound ==
    (req.handler \in {"assets", "post_assets", "posts"} /\ HasMdExtension(req.uri)) =>
        /\ resp.status = 404
        /\ resp.stat = None
        /\ resp.open = None
        /\ resp.read = None
        /\ resp.body = None

\* a post that is on the disk was asked for by its .md name on the
\* post-assets route
C7_Witness ==
    /\ req.handler = "post_assets"
    /\ req.uri = POST_ASSETS_ROUTE \o <<"/", "m", ".", "m", "d">>
    /\ NodeKind(Append(PostsNode, <<"m", ".", "m", "d">>)) = "file"
    /\ resp.status = 404

\* C8: a request whose path does not start with the route prefix (and has
\* no excluded extension) gets 400 from serve_static and is not joined
\* onto the base directory.
C8_OffRouteBadRequest ==
    (/\ IsStatic(req.handler)
     /\ ~PathStartsWith(req.uri, RouteOf(req.handler))
     /\ ~HasMdExtension(req.uri)) =>
        /\ resp.status = 400
        /\ resp.stat = None

\* the segments of a request path that are neither empty nor "."
RequestSegments(uri) ==
    SelectSeq(Split(uri), LAMBDA seg : seg # <<>> /\ seg # CurDir)

\* the path is below the route /posts
UnderPosts(uri) ==
    /\ HasRoot(uri)
    /\ RequestSegments(uri) # <<>>
    /\ Head(RequestSegments(uri)) = POST_SUBDIR

\* the final segment of a path below /posts, when it names something
HasRequestedName(uri) ==
    /\ UnderPosts(uri)
    /\ Len(RequestSegments(uri)) > 1
    /\ RequestSegments(uri)[Len(RequestSegments(uri))] # ParentDir

RequestedName(uri) == RequestSegments(uri)[Len(RequestSegments(uri))]

\* <content_dir>/posts/<name>.md
PostFilePath(name) == PostsDirPath \o <<"/">> \o name \o DOT_MD

\* the posts directory holds a file <name>.md that loads as a post
LoadablePost(name) ==
    \E i \in 1..Len(posts_dir) :
        /\ posts_dir[i].name = name \o DOT_MD
        /\ posts_dir[i].kind = "file"
        /\ ~NoCompleteFrontMatter(posts_dir[i].text)
        /\ posts_dir[i].meta.parse = "ok"

\* the final segment of the request path, "." and empty segments left out
FinalSegment(uri) == RequestSegments(uri)[Len(RequestSegments(uri))]

\* the name serve_post takes from a path below /posts: the final segment of
\* what follows the route, empty when nothing follows or when it is ".."
PostNameOf(uri) == IF HasRequestedName(uri) THEN RequestedName(uri) ELSE <<>>

\* what serve_post answers for a path below /posts when the post it
\* loads is <content_dir>/posts/<name>.md
PostAnswer(name) ==
    /\ resp.read = Some(PostFilePath(name))
    /\ IF LoadablePost(name)
       THEN /\ resp.status = 200
            /\ resp.body.some
            /\ resp.body.val.template = POST_TEMPLATE
            /\ resp.body.val.model.title
                  = posts_dir[EntryIndex(name \o DOT_MD)].meta.title
       ELSE resp.status = 500 /\ resp.body = None

\* C11 as stated: serve_post, for a path whose extension is not md, answers
\* 400 when the path is not below /posts; else it loads
\* <content_dir>/posts/<final path segment>.md and answers 200 with the
\* rendered post when the load succeeds and 500 when it fails.
C11_ServePostFinalSegment ==
    (req.handler = "posts" /\ ~HasMdExtension(req.uri)) =>
        IF ~UnderPosts(req.uri)
        THEN resp.status = 400 /\ resp.read = None /\ resp.body = None
        ELSE PostAnswer(FinalSegment(req.uri))

\* C11: serve_post, for a path whose extension is not md, answers 400 when
\* the path is not below /posts; else it loads <content_dir>/posts/<name>.md
\* with <name> the final segment of what follows /posts, empty when nothing
\* follows or when that segment is "..", and answers 200 with the rendered
\* post when the load succeeds and 500 when it fails, a missing post
\* included.
C11_ServePostStatus ==
    (req.handler = "posts" /\ ~HasMdExtension(req.uri)) =>
        IF ~UnderPosts(req.uri)
        THEN resp.status = 400 /\ resp.read = None /\ resp.body = None
        ELSE PostAnswer(PostNameOf(req.uri))

\* a post that is not on the disk was asked for and the answer is 500
C11_Witness ==
    /\ req.handler = "posts"
    /\ req.uri = POSTS_ROUTE \o <<"/", "d", "/", "d", "m">>
    /\ EntryIndex(<<"d", "m", ".", "m", "d">>) = 0
    /\ resp.status = 500
    /\ resp.read = Some(PostFilePath(<<"d", "m">>))

\* blog.md is there and loads
LoadableBlog ==
    /\ blog_md.present
    /\ ~NoCompleteFrontMatter(blog_md.text)
    /\ blog_md.meta.parse = "ok"

\* every .md file of the posts directory loads
LoadableListing ==
    \A i \in 1..Len(posts_dir) :
        IsMdFile(posts_dir[i]) =>
            ~NoCompleteFrontMatter(posts_dir[i].text) /\ posts_dir[i].meta.parse = "ok"

\* what serve_main_page answers when the path is the home page's
HomeAnswer ==
    IF LoadableBlog /\ LoadableListing
    THEN /\ resp.status = 200
         /\ resp.body.some
         /\ resp.body.val.template = MAIN_TEMPLATE
    ELSE resp.status = 500 /\ resp.body = None

\* C12 as stated: serve_main_page answers with the home page (200, or 500
\* and no page when blog.md or the post metadata fails to load) only when
\* the path is exactly "/", and 404 for every other path.
C12_HomeOnlyAtRoot ==
    req.handler = "main" =>
        IF req.uri = <<"/">>
        THEN HomeAnswer
        ELSE resp.status = 404 /\ resp.body = None

\* C12 amended: the home page is answered for the path "/" and for the
\* empty path; every other path gets 404.
C12_HomeAtRootOrEmpty ==
    req.handler = "main" =>
        IF req.uri = <<"/">> \/ req.uri = <<>>
        THEN HomeAnswer
        ELSE resp.status = 404 /\ resp.body = None

\* the home page was asked for while blog.md does not load
C12_Witness ==
    /\ req.handler = "main"
    /\ req.uri = <<"/">>
    /\ ~LoadableBlog
    /\ LoadableListing
    /\ resp.status = 500

----------------------------------------------------------------------------
(* Claims about requests interleaved with content changes (SpecFresh).     *)

\* the .md files of the posts directory as it is now, in enumeration order
MdEntries == SelectSeq(posts_dir, IsMdFile)

\* the file loads: it is a regular file with a closed front-matter block
\* that parses
LoadsAsRead(file) ==
    /\ ~NoCompleteFrontMatter(file.text)
    /\ file.meta.parse = "ok"

\* the home-page request in hand has been handled
HomeHandled == req.handler = "main" /\ req.uri = ROOT_ROUTE /\ hnd.step = "done"

\* the post request in hand has been handled
PostHandled == req.handler = "posts" /\ HasRequestedName(req.uri) /\ hnd.step = "done"

\* C13: no content is kept between requests: whatever was answered before,
\* the answer to a home-page or post request is made of the content files
\* as the handler read them while handling that request (500 when one of
\* them did not load then); and when no file changed while the request was
\* handled, it is the answer of the content files as they are.
C13_NoStaleContent ==
    /\ HomeHandled =>
          /\ hnd.read_blog.some
          /\ IF /\ hnd.read_blog.val.present
                /\ LoadsAsRead(hnd.read_blog.val)
                /\ \A i \in 1..Len(hnd.read_posts) :
                      hnd.read_posts[i].kind = "file" /\ LoadsAsRead(hnd.read_posts[i])
             THEN /\ resp.status = 200
                  /\ resp.body.val.model.title = hnd.read_blog.val.meta.title
                  /\ Len(resp.body.val.model.posts) = Len(hnd.read_posts)
                  /\ \A i \in 1..Len(hnd.read_posts) :
                        /\ resp.body.val.model.posts[i].title = hnd.read_posts[i].meta.title
                        /\ resp.body.val.model.posts[i].date = hnd.read_posts[i].meta.date
             ELSE resp.status = 500 /\ resp.body = None
          /\ ~hnd.edited =>
                /\ hnd.read_blog.val = blog_md
                /\ HomeAnswer
                /\ LoadableBlog => \A i \in 1..Len(hnd.read_posts) :
                                      hnd.read_posts[i] = MdEntries[i]
                /\ (LoadableBlog /\ LoadableListing) => Len(hnd.read_posts) = Len(MdEntries)
    /\ PostHandled =>
          /\ Len(hnd.read_posts) = 1
          /\ hnd.read_posts[1].name = RequestedName(req.uri) \o DOT_MD
          /\ IF hnd.read_posts[1].kind = "file" /\ LoadsAsRead(hnd.read_posts[1])
             THEN /\ resp.status = 200
                  /\ resp.body.val.model.title = hnd.read_posts[1].meta.title
                  /\ resp.body.val.model.date = hnd.read_posts[1].meta.date
             ELSE resp.status = 500 /\ resp.body = None
          /\ ~hnd.edited => hnd.read_posts[1] = DiskEntry(RequestedName(req.uri) \o DOT_MD)

\* the home page was answered, a post changed, and the same request, with
\* no change while it was handled, now gets another page
C13_Witness ==
    /\ call.fn = "answered"
    /\ call.arg = [handler |-> "main", uri |-> ROOT_ROUTE]
    /\ call.res.status = 200
    /\ HomeHandled
    /\ ~hnd.edited
    /\ resp.status = 200
    /\ resp.body # call.res.body

\* a post was listed and then removed before the handler read it: 500,
\* though the files load both before and after the change
C13_WitnessRemovedWhileHandled ==
    /\ HomeHandled
    /\ hnd.edited
    /\ resp.status = 500
    /\ LoadableBlog /\ LoadableListing
    /\ Len(hnd.read_posts) > 0
    /\ hnd.read_posts[Len(hnd.read_posts)].kind = "none"

----------------------------------------------------------------------------
(* More claims about the pack run (Spec).                                  *)

\* the steps of a pack run in the order the claim gives them
StepRank(step) ==
    CASE step = "ensure_assets" -> 1
      [] step = "copy_assets" -> 2
      [] step = "load_templates" -> 3
      [] step = "read_content" -> 4
      [] step = "write_main" -> 5
      [] step = "write_posts" -> 6
      [] step = "copy_post_assets" -> 7
      [] step = "done" -> 8
      [] step = "failed" -> 9
      [] step = "panicked" -> 9

\* the pages of the posts a pack run has loaded
PostPages ==
    { blog_content.val.val.posts[i].file_name : i \in 1..Len(blog_content.val.val.posts) }

\* what holds of a run at every moment
PackRunState ==
    /\ (exit_code = 1) = (pc = "failed")
    /\ (exit_code = 101) = (pc = "panicked")
    /\ (exit_code = 0) = (pc = "done")
    /\ exit_code \in {-1, 0, 1, 101}
    /\ pc \in {"failed", "panicked"} =>
          Len(stderr) = 1 /\ ((stderr[1].kind = "panic") = (pc = "panicked"))
    /\ pc \notin {"failed", "panicked"} => stderr = <<>>
    /\ StepRank(pc) \in 3..8 => out.assets.some /\ TemplateAssetFiles \subseteq out.assets.val
    /\ StepRank(pc) \in 4..8 => blog_templates.some /\ blog_templates.val.ok
    /\ StepRank(pc) \in 5..8 => blog_content.some /\ blog_content.val.ok
    /\ StepRank(pc) \in 6..8 => INDEX_HTML \in out.files
    /\ StepRank(pc) \in 7..8 => PostPages \subseteq out.files
    /\ StepRank(pc) < 3 => blog_templates = None
    /\ StepRank(pc) < 4 => blog_content = None

\* what holds of every step of a run
PackRunStep ==
    /\ pc' # pc =>
          \/ pc' = "failed" /\ StepRank(pc) < 8
          \/ pc' = "panicked" /\ pc = "copy_post_assets"
          \/ StepRank(pc') = StepRank(pc) + 1 /\ StepRank(pc') < 9
    /\ pc' = "panicked" /\ pc # "panicked" =>
          /\ exit_code' = 101
          /\ Len(stderr') = 1
          /\ ~to_str(UnwrapOrDefault(FileName(Head(todo)), <<>>)).some
          /\ blog_templates' = blog_templates
          /\ blog_content' = blog_content
          /\ out'.files = out.files
          /\ out'.assets = out.assets
          /\ out'.post_assets = Some({})
    /\ pc' = "failed" /\ pc # "failed" =>
          /\ exit_code' = 1
          /\ Len(stderr') = 1
          /\ blog_templates.some => blog_templates' = blog_templates
          /\ blog_content.some => blog_content' = blog_content
          /\ out.files \subseteq out'.files
          /\ out'.files \ out.files \subseteq
                (IF pc = "write_main" THEN {INDEX_HTML}
                 ELSE IF pc = "write_posts" THEN {Head(todo).file_name}
                 ELSE {})
          /\ pc \notin {"ensure_assets", "copy_assets"} => out'.assets = out.assets
          /\ pc # "copy_post_assets" => out'.post_assets = out.post_assets
    /\ pc \in {"failed", "panicked", "done"} => UNCHANGED vars

\* C14 as stated: a run that ended before its last step ended with exit
\* status 1, and a run has status 0 only when every step succeeded.
C14_FailureExitsOne ==
    /\ StepRank(pc) = 9 => exit_code = 1
    /\ (exit_code = 0) = (pc = "done")

\* C14: a pack run takes its steps in the fixed order; a failure in a step
\* ends the run there with one printed message and a non-zero exit status
\* and no later step runs; the status is 1 when a call returned an error
\* and 101 when copying a post asset whose name is not valid UTF-8 panics;
\* the run ends normally, with status 0, only when every step succeeded.
C14_OrderedFatalSteps == []PackRunState /\ [][PackRunStep]_vars

\* index.html and one of two post pages were written when the run failed
C14_Witness ==
    /\ pc = "failed"
    /\ exit_code = 1
    /\ blog_content.some
    /\ blog_content.val.ok
    /\ Len(blog_content.val.val.posts) = 2
    /\ INDEX_HTML \in out.files
    /\ Cardinality(out.files \cap PostPages) = 1
    /\ out.post_assets = None

\* every page was written and post_assets recreated when the copy of an
\* asset with a name that is not valid UTF-8 panicked
C14_WitnessPanicked ==
    /\ pc = "panicked"
    /\ exit_code = 101
    /\ INDEX_HTML \in out.files
    /\ out.post_assets = Some({})
    /\ todo # <<>>

----------------------------------------------------------------------------
(* Claims about process_markdown_images and split_content (SpecPure)       *)

\* the prefix put before an image URL, spelled out
AssetPrefix == <<"p","o","s","t","_","a","s","s","e","t","s","/">>

\* the event the claim expects in place of event e
RewrittenEvent(e) ==
    IF e.ev = "Image" THEN [ev |-> "Image", url |-> AssetPrefix \o e.url] ELSE e

\* C15: process_markdown_images replaces the URL of every image event by
\* post_assets/ followed by the original URL and passes every other event,
\* link URLs included, through unchanged; the rendered <img> carries the
\* rewritten URL and the rendered <a> the original one.
C15_OnlyImageUrlsRewritten ==
    call.fn = "process_markdown_images" =>
        /\ Len(call.res.events) = Len(call.arg)
        /\ Len(call.res.html) = Len(call.arg)
        /\ \A i \in 1..Len(call.arg) :
              /\ call.res.events[i] = RewrittenEvent(call.arg[i])
              /\ call.arg[i].ev = "Image" =>
                    call.res.html[i] = [tag |-> "img", attr |-> AssetPrefix \o call.arg[i].url]
              /\ call.arg[i].ev = "Link" =>
                    call.res.html[i] = [tag |-> "a", attr |-> call.arg[i].url]

\* an image and a link with the same URL in one stream
C15_Witness ==
    /\ call.fn = "process_markdown_images"
    /\ call.arg = << [ev |-> "Image", url |-> <<"x">>], [ev |-> "Link", url |-> <<"x">>] >>
    /\ call.res.events[1].url = AssetPrefix \o <<"x">>
    /\ call.res.events[2].url = <<"x">>

\* 1-based positions after the opening delimiter at which a `---` starts
ClosingPositions(text) ==
    { i \in 4..(Len(text) - 2) : <<text[i], text[i + 1], text[i + 2]>> = <<"-", "-", "-">> }

OpensWithDelimiter(text) ==
    /\ Len(text) >= 3
    /\ <<text[1], text[2], text[3]>> = <<"-", "-", "-">>

FirstClosing(text) ==
    CHOOSE i \in ClosingPositions(text) : \A j \in ClosingPositions(text) : i <= j

\* C16: split_content returns (body, front matter): a text that does not
\* start with `---` is all body; a text that starts with `---` and has a
\* later `---` gives the front matter up to and including the first closing
\* `---` and the body after it; a text that starts with `---` and has no
\* closing `---` is all body; in every case the front matter followed by the
\* body is the input text.
C16_SplitCases ==
    call.fn = "split_content" =>
        /\ ~OpensWithDelimiter(call.arg) =>
              call.res = <<call.arg, <<>>>>
        /\ (OpensWithDelimiter(call.arg) /\ ClosingPositions(call.arg) # {}) =>
              /\ call.res[2] = SubSeq(call.arg, 1, FirstClosing(call.arg) + 2)
              /\ call.res[1] = SubSeq(call.arg, FirstClosing(call.arg) + 3, Len(call.arg))
        /\ (OpensWithDelimiter(call.arg) /\ ClosingPositions(call.arg) = {}) =>
              call.res = <<call.arg, <<>>>>
        /\ call.res[2] \o call.res[1] = call.arg

\* a closed block with a second `---` in the body: the first closing one ends
\* the front matter
C16_Witness ==
    /\ call.fn = "split_content"
    /\ call.arg = <<"-","-","-","-","-","-","-","-","-">>
    /\ call.res = << <<"-","-","-">>, <<"-","-","-","-","-","-">> >>

C16_WitnessUnclosed ==
    /\ call.fn = "split_content"
    /\ call.arg = <<"-","-","-","-","-","x">>
    /\ call.res = << <<"-","-","-","-","-","x">>, <<>> >>

----------------------------------------------------------------------------
(* Claims about the directory walks (SpecLoad).                            *)

\* a regular file with an extension that is not md
IsAssetFile(e) ==
    /\ e.kind = "file"
    /\ Extension(e.name).some
    /\ Extension(e.name) # Some(MD)

AssetEntries == SelectSeq(posts_dir, IsAssetFile)

\* the post of collection posts that was read from entry e
LoadedFrom(posts, e) ==
    \E k \in 1..Len(posts) :
        /\ posts[k].title = e.meta.title
        /\ posts[k].date = e.meta.date
        /\ posts[k].file_name = SubSeq(e.name, 1, Len(e.name) - 2) \o <<"h","t","m","l">>

\* C17: the walk of the posts directory classifies an entry by its type and
\* extension only: a regular file with extension md becomes a post, a
\* regular file with another extension becomes an asset whatever it holds, a
\* regular file with no extension and a directory become neither; and
\* read_posts_metadata returns one record per .md file, in enumeration
\* order, and nothing for any other entry.
C17_ClassifiedByExtension ==
    /\ (call.fn = "Blog::read_from" /\ LoadableBlog /\ LoadableListing) =>
          /\ call.res.ok
          /\ Len(call.res.val.posts) = Len(MdEntries)
          /\ \A i \in 1..Len(MdEntries) : LoadedFrom(call.res.val.posts, MdEntries[i])
          /\ call.res.val.post_assets =
                [i \in 1..Len(AssetEntries) |-> PathJoin(PostsDirPath, AssetEntries[i].name)]
    /\ (call.fn = "read_posts_metadata" /\ LoadableListing) =>
          /\ call.res.ok
          /\ Len(call.res.val) = Len(MdEntries)
          /\ \A i \in 1..Len(MdEntries) :
                /\ call.res.val[i].title = MdEntries[i].meta.title
                /\ call.res.val[i].date = MdEntries[i].meta.date
                /\ call.res.val[i].file_name = MdEntries[i].name

\* a directory named d.md, an asset and a post: one post, one asset
C17_Witness ==
    /\ call.fn = "Blog::read_from"
    /\ Len(posts_dir) = 3
    /\ posts_dir[1].name = <<"d",".","m","d">> /\ posts_dir[1].kind = "dir"
    /\ posts_dir[2].name = <<"m",".","d">>
    /\ posts_dir[3].name = <<"m",".","m","d">>
    /\ call.res.ok
    /\ Len(call.res.val.posts) = 1
    /\ call.res.val.post_assets = << PathJoin(PostsDirPath, <<"m",".","d">>) >>

\* a file with no extension and a directory among the entries: the metadata
\* walk returns the one .md file's record
C17_WitnessMetadata ==
    /\ call.fn = "read_posts_metadata"
    /\ Len(posts_dir) = 3
    /\ posts_dir[1].name = PlainName
    /\ posts_dir[2].name = <<"m",".","m","d">>
    /\ posts_dir[3].name = DirName
    /\ call.res.ok
    /\ Len(call.res.val) = 1

----------------------------------------------------------------------------
(* Claims about the routes of the server (SpecServe).                      *)

\* a basename with its final ".md" taken off
WithoutMdExtension(name) == SubSeq(name, 1, Len(name) - 3)

\* the route the home page is expected to give the post read from entry e
ExpectedRoute(e) == <<"/","p","o","s","t","s","/">> \o WithoutMdExtension(e.name)

\* C18: the listing model the home page gets for a post has an empty body,
\* favorite false, an empty year, root_page "/", and the route /posts/
\* followed by the file's basename without its .md extension; and a request
\* for that route makes serve_post load that file.
C18_ListingRoutes ==
    (req.handler = "main" /\ resp.status = 200) =>
        /\ Len(resp.body.val.model.posts) = Len(MdEntries)
        /\ \A i \in 1..Len(MdEntries) :
              /\ resp.body.val.model.posts[i].title = MdEntries[i].meta.title
              /\ resp.body.val.model.posts[i].content = <<>>
              /\ resp.body.val.model.posts[i].favorite = FALSE
              /\ resp.body.val.model.posts[i].year = ""
              /\ resp.body.val.model.posts[i].root_page = <<"/">>
              /\ resp.body.val.model.posts[i].file_name = ExpectedRoute(MdEntries[i])
              /\ serve_post(ContentArg, resp.body.val.model.posts[i].file_name).read
                    = Some(PathJoin(PostsDirPath, MdEntries[i].name))

IsPlainName(name) ==
    /\ name # ParentDir
    /\ \A i \in 1..Len(name) : name[i] # "/"

\* the path names an entry of the posts directory and ends in ".md"
PostsDirEntryMd(path) ==
    /\ Len(LexicalNode(path)) = 3
    /\ SubSeq(LexicalNode(path), 1, 2) = PostsNode
    /\ Len(path) >= 3
    /\ SubSeq(path, Len(path) - 2, Len(path)) = <<".", "m", "d">>

\* C19 as stated: serve_post reads at most one file, and that file is
\* <content_dir>/posts/<name>.md with <name> the final segment of the
\* request path, which holds no separator and is not "..".
C19_ReadsFinalSegmentPost ==
    (req.handler = "posts" /\ resp.read.some) =>
        /\ RequestSegments(req.uri) # <<>>
        /\ IsPlainName(FinalSegment(req.uri))
        /\ resp.read = Some(PostFilePath(FinalSegment(req.uri)))
        /\ PostsDirEntryMd(resp.read.val)
        /\ resp.stat = None /\ resp.open = None

\* C19 amended: serve_post reads at most one file, and that file is
\* <content_dir>/posts/<name>.md with <name> the final segment of what
\* follows /posts in the request path, empty when nothing follows or when
\* that segment is ".."; <name> holds no separator and is not "..", so the
\* file is an entry of the posts directory and its path ends in ".md".
C19_ReadsOnePostsDirFile ==
    req.handler = "posts" =>
        /\ resp.stat = None /\ resp.open = None
        /\ resp.read.some =>
              /\ UnderPosts(req.uri)
              /\ IsPlainName(PostNameOf(req.uri))
              /\ resp.read = Some(PostFilePath(PostNameOf(req.uri)))
              /\ PostsDirEntryMd(resp.read.val)
        /\ ~resp.read.some => resp.status \in {400, 404}

\* a path that climbs out of /posts and names m: posts/m.md is read
C19_Witness ==
    /\ req.handler = "posts"
    /\ req.uri = POSTS_ROUTE \o <<"/", ".", ".", "/", "m">>
    /\ resp.read = Some(PostFilePath(<<"m">>))
    /\ resp.status = 200

\* the bare route: the file named ".md" of the posts directory is read
C19_WitnessBareRoute ==
    /\ req.handler = "posts"
    /\ req.uri = POSTS_ROUTE
    /\ resp.read = Some(PostsDirPath \o <<"/", ".", "m", "d">>)
    /\ resp.status = 500

====
